---------------------------- MODULE Spec2Model ----------------------------
(***************************************************************************)
(* TA Ops audit pipeline (techmum21p/jobreq): the validator                *)
(* (Agent2_Validator.validate), the correction-instruction builder         *)
(* (Agent3_Corrector._build_correction_instructions) and the document      *)
(* corrector (EnhancedDocumentCorrector.generate_corrected_document).      *)
(*                                                                         *)
(* Pay rates are two-decimal dollar amounts.  The model writes a rate as   *)
(* its number of cents c and keeps, beside it, the IEEE-754 double the     *)
(* program holds for the literal c/100, because the validator compares     *)
(* rates with  abs(a - b) > 0.01  on doubles.                              *)
(***************************************************************************)
EXTENDS Integers, Sequences, FiniteSets

(***************************************************************************)
(* Binary64 arithmetic on two-decimal amounts below 64 dollars.            *)
(*                                                                         *)
(* Every double in [2^-7, 64) is a multiple of 2^-59, so such a double is  *)
(* written as the sequence of its WordBits = IntBits + FracBits bits, most *)
(* significant first (IntBits integer bits, FracBits fractional bits).     *)
(***************************************************************************)
\* bits of a binary64 significand
Precision == 53
\* integer bits of the fixed-point word: amounts are below 2^6 dollars
IntBits == 6
\* fractional bits: 0.01 lies in [2^-7, 2^-6), its last significand bit is 2^-59
FracBits == 59
WordBits == IntBits + FracBits
\* cents per dollar: the rates are written with two decimals
CentsPerDollar == 100
\* the tolerance literal 0.01 of validate, in cents
ToleranceCents == 1

RECURSIVE Pow2(_)
Pow2(n) == IF n = 0 THEN 1 ELSE 2 * Pow2(n - 1)

\* the first n bits of r / Den (0 <= r < Den), by long division
RECURSIVE DivBits(_, _, _)
DivBits(r, Den, n) ==
    IF n = 0 THEN <<>>
    ELSE IF 2 * r >= Den THEN <<1>> \o DivBits(2 * r - Den, Den, n - 1)
         ELSE <<0>> \o DivBits(2 * r, Den, n - 1)

\* the remainder left after those n bits
RECURSIVE DivRem(_, _, _)
DivRem(r, Den, n) ==
    IF n = 0 THEN r
    ELSE IF 2 * r >= Den THEN DivRem(2 * r - Den, Den, n - 1)
         ELSE DivRem(2 * r, Den, n - 1)

\* index of the first 1 of a bit sequence, Len + 1 when there is none
RECURSIVE LeadingOne(_, _)
LeadingOne(bits, i) ==
    IF i > Len(bits) THEN i
    ELSE IF bits[i] = 1 THEN i ELSE LeadingOne(bits, i + 1)

\* bits + 1 at position pos (carry runs towards the most significant bit)
RECURSIVE AddOneAt(_, _)
AddOneAt(bits, pos) ==
    IF pos = 0 THEN bits
    ELSE IF bits[pos] = 0 THEN [bits EXCEPT ![pos] = 1]
         ELSE AddOneAt([bits EXCEPT ![pos] = 0], pos - 1)

\* The double nearest to cents/100 (round half to even), as Python's float
\* literal and json.loads produce it: the WordBits-bit fixed-point word.
FloatOfCents(cents) ==
    LET Den   == CentsPerDollar * Pow2(IntBits)
        n     == WordBits + 1
        e     == DivBits(cents, Den, n)
        rem   == DivRem(cents, Den, n)
        p     == LeadingOne(e, 1)
        last  == p + Precision - 1
        trunc == [i \in 1..WordBits |-> IF i <= last THEN e[i] ELSE 0]
    IN  IF p > n \/ last > WordBits THEN [i \in 1..WordBits |-> IF i <= Len(e) THEN e[i] ELSE 0]
        ELSE LET roundBit == e[last + 1]
                 sticky   == rem # 0 \/ \E i \in (last + 2)..n : e[i] = 1
             IN  IF roundBit = 1 /\ (sticky \/ e[last] = 1)
                 THEN AddOneAt(trunc, last)
                 ELSE trunc

\* a > b on fixed-point words of the same length
RECURSIVE BitsGreater(_, _, _)
BitsGreater(a, b, i) ==
    IF i > Len(a) THEN FALSE
    ELSE IF a[i] # b[i] THEN a[i] > b[i]
         ELSE BitsGreater(a, b, i + 1)

\* a - b for a >= b, bit by bit from the least significant end
RECURSIVE BitsSubFrom(_, _, _, _)
BitsSubFrom(a, b, i, borrow) ==
    IF i = 0 THEN a
    ELSE LET d == a[i] - b[i] - borrow
         IN  IF d >= 0 THEN BitsSubFrom([a EXCEPT ![i] = d], b, i - 1, 0)
             ELSE BitsSubFrom([a EXCEPT ![i] = d + 2], b, i - 1, 1)

\* abs(a - b) of two doubles.  The exact difference is kept: rounding it to a
\* double is monotone and the tolerance it is compared with is itself a double,
\* so the rounded and the exact difference compare alike with the tolerance.
FloatAbsDiff(a, b) ==
    IF BitsGreater(b, a, 1) THEN BitsSubFrom(b, a, WordBits, 0)
    ELSE BitsSubFrom(a, b, WordBits, 0)

\* abs(x - y) > 0.01 as the validator evaluates it on the doubles of x and y
FloatExceedsTolerance(x, y) ==
    BitsGreater(FloatAbsDiff(FloatOfCents(x), FloatOfCents(y)),
                FloatOfCents(ToleranceCents), 1)

(***************************************************************************)
(* Data.  ValidationStatus, GroundTruth, ExtractedData, ValidationResult.   *)
(***************************************************************************)
PASS == "Yes"
FAIL == "No"
FOR_CHECKING == "FOR CHECKING"
NOT_APPLICABLE == "N/A"
ValidationStatus == {PASS, FAIL, FOR_CHECKING, NOT_APPLICABLE}

\* Optional[float] / Optional[str]: None is a value of its own, not zero
None == [some |-> FALSE, v |-> 0]
Some(x) == [some |-> TRUE, v |-> x]
NoText == [some |-> FALSE, v |-> ""]

\* most role entries a requisition of the model lists
MaxRoles == 2

\* ground-truth (min, max) pairs in cents: the repository's 14.75-15.00, a pair
\* one cent under an extracted rate, and a pair with min > max (the dataclass
\* does not check the order)
GroundTruths ==
    { [min_pay_rate |-> 1475, max_pay_rate |-> 1500],
      [min_pay_rate |-> 1479, max_pay_rate |-> 1500],
      [min_pay_rate |-> 1500, max_pay_rate |-> 1475] }

\* extracted page-1 rates in cents (the LLM may also return null, or 0.0)
MinRates == {None} \cup {Some(c) : c \in {0, 1250, 1475, 1476, 1477, 1480}}
MaxRates == {None} \cup {Some(c) : c \in {1500, 1501, 1502, 1800}}

\* every amount of the model, and the comparison computed once for each pair
ModelCents ==
    {r.v : r \in (MinRates \cup MaxRates) \ {None}}
    \cup {g.min_pay_rate : g \in GroundTruths} \cup {g.max_pay_rate : g \in GroundTruths}
ToleranceTable == [x \in ModelCents, y \in ModelCents |-> FloatExceedsTolerance(x, y)]
ExceedsTolerance(x, y) == ToleranceTable[x, y]

\* text found inside a role name that the instruction builder searches for
MIN_MISMATCH == "Min pay rate mismatch"
MAX_MISMATCH == "Max pay rate mismatch"
TRANSPARENCY_TEXT == "Pay transparency text"
DOLLAR_SIGN == "dollar sign"
ROLE == "Role"
PAY_RANGE == "pay range"

PlainRole == "Meat Associate"
DollarRole == "Price tag and dollar sign Associate"
MismatchRole == "Min pay rate mismatch Analyst"

\* the searched phrases that occur in a role name
PhrasesInName(name) ==
    IF name = DollarRole THEN {DOLLAR_SIGN}
    ELSE IF name = MismatchRole THEN {MIN_MISMATCH}
    ELSE {}

\* role-specific (min, max) pairs: out of range on both sides, exactly the
\* 14.75-15.00 bounds, wholly above them, and a pair listed upside down
RolePairs == { <<1350, 1900>>, <<1475, 1500>>, <<1600, 1700>>, <<1600, 1500>> }

RoleEntries ==
    { [role |-> PlainRole, role_min |-> p[1], role_max |-> p[2]] : p \in RolePairs }
    \cup { [role |-> n, role_min |-> 1350, role_max |-> 1900] : n \in {DollarRole, MismatchRole} }

\* role_specific_rates: a dict, so the names are unique and the iteration
\* order is the insertion order
RoleMappings ==
    UNION { { m \in [1..n -> RoleEntries] :
                \A i, j \in 1..n : i # j => m[i].role # m[j].role } : n \in 0..MaxRoles }

\* pay_transparency_map as loaded from the spreadsheet: IL has a text, NV has a
\* row whose text cell is blank (the loader stores it as it is), ZZ has no row
IL_TEXT == "Pay Transparency (Illinois)"
GENERIC_TEXT == "generic transparency text"
DEFAULT_TEXT == "default transparency text"
MappedStates == {"IL", "NV"}
States == MappedStates \cup {"ZZ"}

\* pay_transparency_map that answers a state without a row with a default text
pay_transparency_map_WithDefault(state) ==
    IF state = "IL" THEN Some(IL_TEXT)
    ELSE IF state = "NV" THEN Some("")
    ELSE Some(DEFAULT_TEXT)

pay_transparency_map(state) ==
    IF state = "IL" THEN Some(IL_TEXT)
    ELSE IF state = "NV" THEN Some("")
    ELSE NoText

ExtractedWith(states, texts) ==
    [ state : states,
      min_pay_rate : MinRates,
      max_pay_rate : MaxRates,
      role_specific_rates : RoleMappings,
      job_description_present : BOOLEAN,
      pay_transparency_text : texts,
      has_dollar_signs : BOOLEAN ]

\* documents of the state with a reference text carry that text or a generic
\* one; documents of the other states carry the generic one
ExtractedDatas ==
    ExtractedWith({"IL"}, {IL_TEXT, GENERIC_TEXT})
        \cup ExtractedWith(States \ {"IL"}, {GENERIC_TEXT})

(***************************************************************************)
(* Agent2_Validator.validate                                               *)
(***************************************************************************)
\* an entry of corrections_needed: the check that wrote it and the values its
\* text shows.  kind is the fixed wording, role/state the inserted free text.
Reason(kind, role, a, b) == [kind |-> kind, role |-> role, a |-> a, b |-> b]

TemplateReason == Reason("Job description section missing or incomplete", "", 0, 0)
MinNotFoundReason == Reason("Minimum pay rate not found in document", "", 0, 0)
MaxNotFoundReason == Reason("Maximum pay rate not found in document", "", 0, 0)
MinMismatchReason(shown, should) == Reason("Min pay rate mismatch: Document shows, should be", "", shown, should)
MaxMismatchReason(shown, should) == Reason("Max pay rate mismatch: Document shows, should be", "", shown, should)
RoleReason(r) == Reason("Role pay range falls outside allowed range", r.role, r.role_min, r.role_max)
TransparencyReason(state) == Reason("Pay transparency text for state does not match expected template", state, 0, 0)
DollarReason == Reason("Pay rates missing dollar sign ($) formatting", "", 0, 0)

\* 1. template (structure check)
TemplateCheck(ext) ==
    IF ~ext.job_description_present
    THEN [status |-> FAIL, reasons |-> <<TemplateReason>>]
    ELSE [status |-> PASS, reasons |-> <<>>]

\* MinRateCheck with a missing rate reported as a mismatch
MinRateCheck_MissingAsMismatch(ext, gt) ==
    IF ~ext.min_pay_rate.some \/ ExceedsTolerance(ext.min_pay_rate.v, gt.min_pay_rate)
    THEN [status |-> FAIL, reasons |-> <<MinNotFoundReason>>]
    ELSE [status |-> PASS, reasons |-> <<>>]

\* MinRateCheck with a missing rate marked for checking but not listed
MinRateCheck_MissingNotListed(ext, gt) ==
    IF ~ext.min_pay_rate.some
    THEN [status |-> FOR_CHECKING, reasons |-> <<>>]
    ELSE IF ExceedsTolerance(ext.min_pay_rate.v, gt.min_pay_rate)
    THEN [status |-> FAIL,
          reasons |-> <<MinMismatchReason(ext.min_pay_rate.v, gt.min_pay_rate)>>]
    ELSE [status |-> PASS, reasons |-> <<>>]

\* MinRateCheck that takes a rate of 0.0 for a missing one
MinRateCheck_ZeroAsMissing(ext, gt) ==
    IF ~ext.min_pay_rate.some \/ ext.min_pay_rate.v = 0
    THEN [status |-> FOR_CHECKING, reasons |-> <<MinNotFoundReason>>]
    ELSE IF ExceedsTolerance(ext.min_pay_rate.v, gt.min_pay_rate)
    THEN [status |-> FAIL,
          reasons |-> <<MinMismatchReason(ext.min_pay_rate.v, gt.min_pay_rate)>>]
    ELSE [status |-> PASS, reasons |-> <<>>]

\* 2. min pay rate
MinRateCheck(ext, gt) ==
    IF ~ext.min_pay_rate.some
    THEN [status |-> FOR_CHECKING, reasons |-> <<MinNotFoundReason>>]
    ELSE IF ExceedsTolerance(ext.min_pay_rate.v, gt.min_pay_rate)
    THEN [status |-> FAIL,
          reasons |-> <<MinMismatchReason(ext.min_pay_rate.v, gt.min_pay_rate)>>]
    ELSE [status |-> PASS, reasons |-> <<>>]

\* 3. max pay rate
MaxRateCheck(ext, gt) ==
    IF ~ext.max_pay_rate.some
    THEN [status |-> FOR_CHECKING, reasons |-> <<MaxNotFoundReason>>]
    ELSE IF ExceedsTolerance(ext.max_pay_rate.v, gt.max_pay_rate)
    THEN [status |-> FAIL,
          reasons |-> <<MaxMismatchReason(ext.max_pay_rate.v, gt.max_pay_rate)>>]
    ELSE [status |-> PASS, reasons |-> <<>>]

\* 4. role-specific rates: the condition under which a role is reported
RoleOutOfRange(r, gt) ==
    r.role_min < gt.min_pay_rate \/ r.role_max > gt.max_pay_rate

\* RoleRateReasons listing the offending roles last to first
RECURSIVE RoleRateReasons_Reversed(_, _)
RoleRateReasons_Reversed(roles, gt) ==
    IF roles = <<>> THEN <<>>
    ELSE RoleRateReasons_Reversed(Tail(roles), gt)
         \o (IF RoleOutOfRange(Head(roles), gt) THEN <<RoleReason(Head(roles))>> ELSE <<>>)

RECURSIVE RoleRateReasons(_, _)
RoleRateReasons(roles, gt) ==
    IF roles = <<>> THEN <<>>
    ELSE (IF RoleOutOfRange(Head(roles), gt) THEN <<RoleReason(Head(roles))>> ELSE <<>>)
         \o RoleRateReasons(Tail(roles), gt)

\* _check_text_similarity: the number the LLM reply parses to, in hundredths;
\* a reply float() rejects gives 0.0
SimilarityThreshold == 95
UnusableReply == [parses |-> FALSE, score |-> 0]
ScoreReply(s) == [parses |-> TRUE, score |-> s]
check_text_similarity(reply) == IF reply.parses THEN reply.score ELSE 0

\* what the LLM may answer for two texts: the prompt defines 1.0 for texts that
\* convey the same information, so identical texts get no other number; any
\* reply may fail to be a bare number
OracleReplies(text1, text2) ==
    IF text1 = text2 THEN {ScoreReply(100), UnusableReply}
    ELSE {ScoreReply(80), ScoreReply(95), ScoreReply(100), UnusableReply}

\* TransparencyReasons that also flags a similarity equal to the threshold
TransparencyReasons_AtThreshold(ext, reply) ==
    LET expected_transparency == pay_transparency_map(ext.state)
    IN  IF expected_transparency.some /\ expected_transparency.v # ""
        THEN IF check_text_similarity(reply) <= SimilarityThreshold
             THEN <<TransparencyReason(ext.state)>>
             ELSE <<>>
        ELSE <<>>

\* 5. pay transparency text
TransparencyReasons(ext, reply) ==
    LET expected_transparency == pay_transparency_map(ext.state)
    IN  IF expected_transparency.some /\ expected_transparency.v # ""
        THEN IF check_text_similarity(reply) < SimilarityThreshold
             THEN <<TransparencyReason(ext.state)>>
             ELSE <<>>
        ELSE <<>>

\* DollarSignCheck recording its reason twice
DollarSignCheck_ReasonTwice(ext) ==
    IF ~ext.has_dollar_signs
    THEN [status |-> FAIL, reasons |-> <<DollarReason, DollarReason>>]
    ELSE [status |-> PASS, reasons |-> <<>>]

\* 6. dollar sign formatting
DollarSignCheck(ext) ==
    IF ~ext.has_dollar_signs
    THEN [status |-> FAIL, reasons |-> <<DollarReason>>]
    ELSE [status |-> PASS, reasons |-> <<>>]

\* JobDescriptionCheck that never fails
JobDescriptionCheck_AlwaysPass(ext) == PASS

\* 7. job description
JobDescriptionCheck(ext) ==
    IF ext.job_description_present THEN PASS ELSE FAIL

\* validate whose template verdict follows the similarity answer
validate_TemplateFromOracle(ext, gt, reply) ==
    [ correct_template |->
          IF TransparencyReasons(ext, reply) # <<>> THEN FAIL
          ELSE TemplateCheck(ext).status,
      correct_min_pay_rate |-> MinRateCheck(ext, gt).status,
      correct_max_pay_rate |-> MaxRateCheck(ext, gt).status,
      job_description |-> JobDescriptionCheck(ext),
      dollar_sign_included |-> DollarSignCheck(ext).status,
      corrections_needed |->
          TemplateCheck(ext).reasons \o MinRateCheck(ext, gt).reasons
          \o MaxRateCheck(ext, gt).reasons
          \o RoleRateReasons(ext.role_specific_rates, gt)
          \o TransparencyReasons(ext, reply) \o DollarSignCheck(ext).reasons,
      corrections_completed |-> <<>> ]

validate(ext, gt, reply) ==
    [ correct_template |-> TemplateCheck(ext).status,
      correct_min_pay_rate |-> MinRateCheck(ext, gt).status,
      correct_max_pay_rate |-> MaxRateCheck(ext, gt).status,
      job_description |-> JobDescriptionCheck(ext),
      dollar_sign_included |-> DollarSignCheck(ext).status,
      corrections_needed |->
          TemplateCheck(ext).reasons \o MinRateCheck(ext, gt).reasons
          \o MaxRateCheck(ext, gt).reasons
          \o RoleRateReasons(ext.role_specific_rates, gt)
          \o TransparencyReasons(ext, reply) \o DollarSignCheck(ext).reasons,
      corrections_completed |-> <<>> ]

NoResult ==
    [ correct_template |-> NOT_APPLICABLE, correct_min_pay_rate |-> NOT_APPLICABLE,
      correct_max_pay_rate |-> NOT_APPLICABLE, job_description |-> NOT_APPLICABLE,
      dollar_sign_included |-> NOT_APPLICABLE, corrections_needed |-> <<>>,
      corrections_completed |-> <<>> ]

\* whether validate consults the similarity oracle for this document
ConsultsOracle(ext) ==
    pay_transparency_map(ext.state).some /\ pay_transparency_map(ext.state).v # ""

NoReply == [parses |-> FALSE, score |-> 0]

(***************************************************************************)
(* Agent3_Corrector._build_correction_instructions                         *)
(***************************************************************************)
\* the searched phrases that occur in the fixed wording of a reason
PhrasesInWording(kind) ==
    IF kind = MinMismatchReason(0, 0).kind THEN {MIN_MISMATCH}
    ELSE IF kind = MaxMismatchReason(0, 0).kind THEN {MAX_MISMATCH}
    ELSE IF kind = RoleReason([role |-> "", role_min |-> 0, role_max |-> 0]).kind
         THEN {ROLE, PAY_RANGE}
    ELSE IF kind = TransparencyReason("").kind THEN {TRANSPARENCY_TEXT}
    ELSE IF kind = DollarReason.kind THEN {DOLLAR_SIGN}
    ELSE {}

\* Python's  phrase in correction  on the rendered text of the reason
Contains(correction, phrase) ==
    phrase \in PhrasesInWording(correction.kind) \cup PhrasesInName(correction.role)

\* the branch of the if/elif chain a correction takes: 1..5, 0 when none matches
CorrectionNumber(correction) ==
    IF Contains(correction, MIN_MISMATCH) THEN 1
    ELSE IF Contains(correction, MAX_MISMATCH) THEN 2
    ELSE IF Contains(correction, TRANSPARENCY_TEXT) THEN 3
    ELSE IF Contains(correction, DOLLAR_SIGN) THEN 4
    ELSE IF Contains(correction, ROLE) /\ Contains(correction, PAY_RANGE) THEN 5
    ELSE 0

NoReason == Reason("", "", 0, 0)

\* one instruction: its CORRECTION number and the values its text carries
Instruction(n, current, corrected_value, text, about) ==
    [correction |-> n, current |-> current, corrected_value |-> corrected_value,
     text |-> text, about |-> about]

\* the instructions one corrections_needed entry appends (none or one)
InstructionsFor(correction, ext, gt) ==
    LET n == CorrectionNumber(correction)
    IN  IF n = 1 THEN <<Instruction(1, ext.min_pay_rate.v, gt.min_pay_rate, NoText, NoReason)>>
        ELSE IF n = 2 THEN <<Instruction(2, ext.max_pay_rate.v, gt.max_pay_rate, NoText, NoReason)>>
        ELSE IF n = 3 THEN <<Instruction(3, 0, 0, pay_transparency_map(ext.state), NoReason)>>
        ELSE IF n = 4 THEN <<Instruction(4, 0, 0, NoText, NoReason)>>
        ELSE IF n = 5 THEN <<Instruction(5, gt.min_pay_rate, gt.max_pay_rate, NoText, correction)>>
        ELSE <<>>

\* formatting None with :.2f raises TypeError
InstructionRaises(correction, ext) ==
    \/ CorrectionNumber(correction) = 1 /\ ~ext.min_pay_rate.some
    \/ CorrectionNumber(correction) = 2 /\ ~ext.max_pay_rate.some

RECURSIVE build_correction_instructions(_, _, _)
build_correction_instructions(corrections_needed, ext, gt) ==
    IF corrections_needed = <<>> THEN <<>>
    ELSE InstructionsFor(Head(corrections_needed), ext, gt)
         \o build_correction_instructions(Tail(corrections_needed), ext, gt)

BuildRaises(corrections_needed, ext) ==
    \E i \in 1..Len(corrections_needed) : InstructionRaises(corrections_needed[i], ext)

(***************************************************************************)
(* EnhancedDocumentCorrector.generate_corrected_document                   *)
(***************************************************************************)
Max(a, b) == IF a >= b THEN a ELSE b
Min(a, b) == IF a <= b THEN a ELSE b

\* AdjustRole that caps the maximum and leaves the minimum as extracted
AdjustRole_CapOnly(r, gt) ==
    [role |-> r.role,
     role_min |-> r.role_min,
     role_max |-> Min(r.role_max, gt.max_pay_rate)]

\* one "role - $min - $max" bullet of the corrected document
AdjustRole(r, gt) ==
    [role |-> r.role,
     role_min |-> Max(r.role_min, gt.min_pay_rate),
     role_max |-> Min(r.role_max, gt.max_pay_rate)]

\* PayTransparencyLoader.get_transparency_text: _load_map keeps a row only when
\* both of its cells are filled, and a state without a row gets the default text
get_transparency_text(state) ==
    IF pay_transparency_map(state).some /\ pay_transparency_map(state).v # ""
    THEN pay_transparency_map(state).v
    ELSE DEFAULT_TEXT

\* the fields of the generated document, as an extraction of it reads them
generate_corrected_document(job_data, gt, pay_transparency_text) ==
    [ state |-> job_data.state,
      min_pay_rate |-> Some(gt.min_pay_rate),
      max_pay_rate |-> Some(gt.max_pay_rate),
      role_specific_rates |->
          [i \in 1..Len(job_data.role_specific_rates) |->
              AdjustRole(job_data.role_specific_rates[i], gt)],
      job_description_present |-> TRUE,
      pay_transparency_text |-> pay_transparency_text,
      has_dollar_signs |-> TRUE ]

NoDocument ==
    [ state |-> "", min_pay_rate |-> None, max_pay_rate |-> None,
      role_specific_rates |-> <<>>, job_description_present |-> FALSE,
      pay_transparency_text |-> "", has_dollar_signs |-> FALSE ]

(***************************************************************************)
(* The audit of one requisition, and the audit of its corrected document.   *)
(***************************************************************************)
\* pc: where the running audit stands.  run: 1 audits the extracted
\* requisition, 2 audits the corrected document.
\* oracle_reply/oracle_asked: the LLM's answer to the latest similarity question.
VARIABLES pc, run, extracted, ground_truth, validation_result, oracle_reply,
          oracle_asked, instructions, corrected

\* batch_process and the process_requisition call it is in:
\* sharepoint_data/auto_correct: the arguments.  index: the loop position.
\* results: the list being built.  corrected_path, corrections_applied: locals
\* of process_requisition.  corrector_invoked: apply_corrections was called in
\* this call.  tracker, reports: what update_sharepoint printed and the report
\* files written.  raised: the exception in flight.  log: the line printed for
\* each requisition the loop is done with.
VARIABLES sharepoint_data, auto_correct, index, results, corrected_path,
          corrections_applied, corrector_invoked, tracker, reports, raised, log

\* PayTransparencyLoader: excel is the sheet at excel_path (its rows from the
\* second one on), transparency_map the attribute __init__ sets, lookup_state
\* and lookup_text the argument and the return value of the latest
\* get_transparency_text call.
VARIABLES excel, transparency_map, lookup_state, lookup_text

lvars == <<excel, transparency_map, lookup_state, lookup_text>>

bvars == <<sharepoint_data, auto_correct, index, results, corrected_path,
           corrections_applied, corrector_invoked, tracker, reports, raised, log>>

vars == <<pc, run, extracted, ground_truth, validation_result, oracle_reply,
          oracle_asked, instructions, corrected, bvars, lvars>>

\* no batch is running
NoBatch ==
    /\ sharepoint_data = <<>>
    /\ auto_correct = TRUE
    /\ index = 1
    /\ results = <<>>
    /\ corrected_path = None
    /\ corrections_applied = <<>>
    /\ corrector_invoked = FALSE
    /\ tracker = <<>>
    /\ reports = <<>>
    /\ raised = ""
    /\ log = <<>>

\* a dict without keys
EmptyMap == [key \in {} |-> ""]

\* no PayTransparencyLoader has been built
NoLoader ==
    /\ excel = <<>>
    /\ transparency_map = EmptyMap
    /\ lookup_state = ""
    /\ lookup_text = ""

\* the fields under audit in the current run
Subject == IF run = 1 THEN extracted ELSE corrected

Init ==
    /\ pc = "EXTRACTED"
    /\ run = 1
    /\ extracted \in ExtractedDatas
    /\ ground_truth \in GroundTruths
    /\ validation_result = NoResult
    /\ oracle_reply = NoReply
    /\ oracle_asked = FALSE
    /\ instructions = <<>>
    /\ corrected = NoDocument
    /\ NoBatch
    /\ NoLoader

\* validator.validate(extracted, ground_truth)
Validate ==
    /\ pc = "EXTRACTED"
    /\ \E reply \in (IF ConsultsOracle(Subject)
                     THEN OracleReplies(Subject.pay_transparency_text,
                                        pay_transparency_map(Subject.state).v)
                     ELSE {NoReply}) :
          /\ oracle_reply' = reply
          /\ validation_result' = validate(Subject, ground_truth, reply)
    /\ oracle_asked' = ConsultsOracle(Subject)
    /\ pc' = "VALIDATED"
    /\ UNCHANGED <<run, extracted, ground_truth, instructions, corrected, bvars, lvars>>

\* corrector._build_correction_instructions(extracted, ground_truth,
\* validation_result, pay_transparency_map)
BuildCorrectionInstructions ==
    /\ pc = "VALIDATED"
    /\ IF BuildRaises(validation_result.corrections_needed, Subject)
       THEN /\ pc' = "TYPE_ERROR"
            /\ UNCHANGED instructions
       ELSE /\ pc' = "PLANNED"
            /\ instructions' = build_correction_instructions(
                                   validation_result.corrections_needed,
                                   Subject, ground_truth)
    /\ UNCHANGED <<run, extracted, ground_truth, validation_result, oracle_reply,
                   oracle_asked, corrected, bvars, lvars>>

\* corrector.generate_corrected_document(job_data, ground_truth,
\* pay_transparency_text, output_path); the document it writes is then audited
\* as a requisition of its own
GenerateCorrectedDocument ==
    /\ pc = "PLANNED"
    /\ run = 1
    /\ corrected' = generate_corrected_document(extracted, ground_truth,
                        get_transparency_text(extracted.state))
    /\ run' = 2
    /\ pc' = "EXTRACTED"
    /\ validation_result' = NoResult
    /\ instructions' = <<>>
    /\ oracle_reply' = NoReply
    /\ oracle_asked' = FALSE
    /\ UNCHANGED <<extracted, ground_truth, bvars, lvars>>

Next ==
    \/ Validate
    \/ BuildCorrectionInstructions
    \/ GenerateCorrectedDocument

Spec == Init /\ [][Next]_vars

(***************************************************************************)
(* TAOpsAuditOrchestrator.process_requisition and batch_process            *)
(***************************************************************************)
\* most requisitions a batch of the model holds
MaxBatch == 2

\* documents the extractor returns for the PDFs of the model
CleanDoc ==
    [ state |-> "IL", min_pay_rate |-> Some(1475), max_pay_rate |-> Some(1500),
      role_specific_rates |-> <<>>, job_description_present |-> TRUE,
      pay_transparency_text |-> IL_TEXT, has_dollar_signs |-> TRUE ]
IncorrectDoc ==
    [ state |-> "IL", min_pay_rate |-> Some(1250), max_pay_rate |-> Some(1800),
      role_specific_rates |-> <<[role |-> PlainRole, role_min |-> 1350, role_max |-> 1900]>>,
      job_description_present |-> FALSE,
      pay_transparency_text |-> GENERIC_TEXT, has_dollar_signs |-> FALSE ]
NoMinRateDoc ==
    [ state |-> "ZZ", min_pay_rate |-> None, max_pay_rate |-> Some(1500),
      role_specific_rates |-> <<>>, job_description_present |-> TRUE,
      pay_transparency_text |-> GENERIC_TEXT, has_dollar_signs |-> TRUE ]
NoMinRateMismatchRoleDoc ==
    [ state |-> "ZZ", min_pay_rate |-> None, max_pay_rate |-> Some(1500),
      role_specific_rates |-> <<[role |-> MismatchRole, role_min |-> 1350, role_max |-> 1900]>>,
      job_description_present |-> TRUE,
      pay_transparency_text |-> GENERIC_TEXT, has_dollar_signs |-> TRUE ]

\* the intentionally incorrect test requisition 651640
\* (create_incorrect_requisition.py): rates 12.50 and 18.00 without dollar
\* signs, seven role bullets, generic pay transparency text, no complete job
\* description
Doc651640 ==
    [ state |-> "IL", min_pay_rate |-> Some(1250), max_pay_rate |-> Some(1800),
      role_specific_rates |->
          <<[role |-> PlainRole, role_min |-> 1350, role_max |-> 1900],
            [role |-> "Floral Associate", role_min |-> 1375, role_max |-> 1400],
            [role |-> "Produce Associate", role_min |-> 1375, role_max |-> 1400],
            [role |-> "General Merchandise Associate", role_min |-> 1375, role_max |-> 1400],
            [role |-> "Receiving/Freight Associate", role_min |-> 1375, role_max |-> 1400],
            [role |-> "Grocery Associate", role_min |-> 1375, role_max |-> 1400],
            [role |-> "Bakery Associate", role_min |-> 1375, role_max |-> 1400]>>,
      job_description_present |-> FALSE,
      pay_transparency_text |-> GENERIC_TEXT, has_dollar_signs |-> FALSE ]

\* one entry of sharepoint_data with what the run finds for it: whether
\* <number>.pdf is in the directory, and what self.extractor.extract_from_pdf
\* does with it (raises names the exception, "" when it returns data).
\* Agent1_DocumentExtractor as written raises KeyError for every document (its
\* prompt's literal braces reach str.format); the orchestrator is modelled for
\* any extractor bound to self.extractor, returning fields or raising.
BatchEntry(pdf_exists, raises, data) ==
    [ ground_truth |-> [min_pay_rate |-> 1475, max_pay_rate |-> 1500],
      pdf_exists |-> pdf_exists, raises |-> raises, data |-> data ]

BatchEntries ==
    { BatchEntry(FALSE, "", NoDocument), BatchEntry(TRUE, "KeyError", NoDocument) }
    \cup { BatchEntry(TRUE, "", d) :
              d \in {CleanDoc, IncorrectDoc, NoMinRateDoc, NoMinRateMismatchRoleDoc,
                     Doc651640} }

Batches == UNION { [1..n -> BatchEntries] : n \in 1..MaxBatch }

\* the job_requisition_number of the entry at a position of the batch
JobNumber(i) == i

\* a file path derived from <number>.pdf
Path(job, suffix) == Some([job |-> job, suffix |-> suffix])

\* the correction step taken whenever auto_correct is set
ShouldCorrect_Always(auto, needed) == auto

\* line 606
ShouldCorrect_WheneverNeeded(auto, needed) == needed # <<>>

ShouldCorrect(auto, needed) == auto /\ needed # <<>>

\* apply_corrections overwriting the page-1 rates of the ExtractedData it is
\* handed with the ground-truth ones
apply_corrections_WritesGroundTruth(job, ext, gt, result) ==
    LET written == [ext EXCEPT !.min_pay_rate = Some(gt.min_pay_rate),
                               !.max_pay_rate = Some(gt.max_pay_rate)]
    IN  IF result.corrections_needed = <<>>
        THEN [ raises |-> "", corrected_path |-> Path(job, ".pdf"),
               corrections_applied |-> <<Reason("No corrections needed", "", 0, 0)>>,
               instructions |-> <<>>, extracted |-> written ]
        ELSE IF BuildRaises(result.corrections_needed, ext)
        THEN [ raises |-> "TypeError", corrected_path |-> None,
               corrections_applied |-> <<>>, instructions |-> <<>>,
               extracted |-> written ]
        ELSE [ raises |-> "", corrected_path |-> Path(job, "_CORRECTED.txt"),
               corrections_applied |-> result.corrections_needed,
               instructions |->
                   build_correction_instructions(result.corrections_needed, ext, gt),
               extracted |-> written ]

\* Agent3_Corrector.apply_corrections; extracted is the ExtractedData object
\* it was handed, as the call leaves it (it only reads the object)
apply_corrections(job, ext, gt, result) ==
    IF result.corrections_needed = <<>>
    THEN [ raises |-> "", corrected_path |-> Path(job, ".pdf"),
           corrections_applied |-> <<Reason("No corrections needed", "", 0, 0)>>,
           instructions |-> <<>>, extracted |-> ext ]
    ELSE IF BuildRaises(result.corrections_needed, ext)
    THEN [ raises |-> "TypeError", corrected_path |-> None,
           corrections_applied |-> <<>>, instructions |-> <<>>, extracted |-> ext ]
    ELSE [ raises |-> "", corrected_path |-> Path(job, "_CORRECTED.txt"),
           corrections_applied |-> result.corrections_needed,
           instructions |-> build_correction_instructions(result.corrections_needed, ext, gt),
           extracted |-> ext ]

\* Agent4_Reporter.update_sharepoint: the update_data it prints; returns True
update_sharepoint(job, result) ==
    [ ok |-> TRUE,
      update_data |->
        [ Job_Requisition_Number |-> job,
          Correct_Template |-> result.correct_template,
          Correct_Min_Pay_Rate |-> result.correct_min_pay_rate,
          Correct_Max_Pay_Rate |-> result.correct_max_pay_rate,
          Job_Description |-> result.job_description,
          Dollar_Sign_Included |-> result.dollar_sign_included,
          Corrections_Completed |-> Len(result.corrections_completed) > 0,
          Action_Needed |-> Len(result.corrections_needed) > 0 ] ]

\* Agent4_Reporter.generate_audit_report: the f-string formats both extracted
\* rates with :.2f before anything else is looked at, so None raises TypeError
generate_audit_report(job, ext, gt, result, applied) ==
    IF ~ext.min_pay_rate.some \/ ~ext.max_pay_rate.some
    THEN [ raises |-> "TypeError", report |-> <<>> ]
    ELSE [ raises |-> "",
           report |-> [ job |-> job, min_pay_rate |-> ext.min_pay_rate.v,
                        max_pay_rate |-> ext.max_pay_rate.v,
                        corrections_needed |-> result.corrections_needed,
                        corrections_applied |-> applied ] ]

\* except Exception: the exception classes the run can raise all derive from it
Catches_KeyErrorOnly(exception) == exception = "KeyError"

Catches(exception) == exception \in {"KeyError", "TypeError"}

BatchInit ==
    /\ pc = "LOOP"
    /\ run = 1
    /\ sharepoint_data \in Batches
    /\ auto_correct \in BOOLEAN
    /\ index = 1
    /\ results = <<>>
    /\ extracted = NoDocument
    /\ ground_truth = [min_pay_rate |-> 1475, max_pay_rate |-> 1500]
    /\ validation_result = NoResult
    /\ oracle_reply = NoReply
    /\ oracle_asked = FALSE
    /\ instructions = <<>>
    /\ corrected = NoDocument
    /\ corrected_path = None
    /\ corrections_applied = <<>>
    /\ corrector_invoked = FALSE
    /\ tracker = <<>>
    /\ reports = <<>>
    /\ raised = ""
    /\ log = <<>>
    /\ NoLoader

\* batch_process, one turn of the for loop up to the call: a missing PDF is
\* warned about and skipped, otherwise process_requisition is entered
BatchLoop ==
    /\ pc = "LOOP"
    /\ index <= Len(sharepoint_data)
    /\ IF ~sharepoint_data[index].pdf_exists
       THEN /\ log' = Append(log, "Warning: PDF not found")
            /\ index' = index + 1
            /\ pc' = "LOOP"
            /\ UNCHANGED ground_truth
       ELSE /\ pc' = "CALLED"
            /\ ground_truth' = sharepoint_data[index].ground_truth
            /\ UNCHANGED <<log, index>>
    /\ extracted' = NoDocument
    /\ validation_result' = NoResult
    /\ oracle_reply' = NoReply
    /\ oracle_asked' = FALSE
    /\ instructions' = <<>>
    /\ corrected_path' = None
    /\ corrections_applied' = <<>>
    /\ corrector_invoked' = FALSE
    /\ raised' = ""
    /\ UNCHANGED <<lvars, run, corrected, sharepoint_data, auto_correct, results, tracker, reports>>

\* process_requisition step 1: self.extractor.extract_from_pdf(pdf_path)
ExtractFromPdf ==
    /\ pc = "CALLED"
    /\ IF sharepoint_data[index].raises # ""
       THEN /\ raised' = sharepoint_data[index].raises
            /\ pc' = "RAISED"
            /\ UNCHANGED extracted
       ELSE /\ extracted' = sharepoint_data[index].data
            /\ pc' = "EXTRACTED"
            /\ UNCHANGED raised
    /\ UNCHANGED <<lvars, run, ground_truth, validation_result, oracle_reply, oracle_asked,
                   instructions, corrected, sharepoint_data, auto_correct, index,
                   results, corrected_path, corrections_applied, corrector_invoked,
                   tracker, reports, log>>

\* process_requisition step 3, lines 602-617
ApplyCorrections ==
    /\ pc = "VALIDATED"
    /\ IF ShouldCorrect(auto_correct, validation_result.corrections_needed)
       THEN LET r == apply_corrections(JobNumber(index), extracted, ground_truth,
                                       validation_result)
            IN  /\ corrector_invoked' = TRUE
                /\ extracted' = r.extracted
                /\ IF r.raises # ""
                   THEN /\ raised' = r.raises
                        /\ pc' = "RAISED"
                        /\ UNCHANGED <<corrected_path, corrections_applied,
                                       validation_result, instructions>>
                   ELSE /\ corrected_path' = r.corrected_path
                        /\ corrections_applied' = r.corrections_applied
                        /\ instructions' = r.instructions
                        /\ validation_result' =
                              [validation_result EXCEPT
                                 !.corrections_completed = r.corrections_applied]
                        /\ pc' = "CORRECTED"
                        /\ UNCHANGED raised
       ELSE /\ pc' = "SKIPPED"
            /\ UNCHANGED <<corrector_invoked, corrected_path, corrections_applied,
                           validation_result, instructions, raised, extracted>>
    /\ UNCHANGED <<lvars, run, ground_truth, oracle_reply, oracle_asked, corrected,
                   sharepoint_data, auto_correct, index, results, tracker, reports, log>>

\* process_requisition step 4, lines 621-624; the returned status is dropped
UpdateSharepoint ==
    /\ pc \in {"CORRECTED", "SKIPPED"}
    /\ tracker' = Append(tracker,
                     update_sharepoint(JobNumber(index), validation_result).update_data)
    /\ pc' = "TRACKED"
    /\ UNCHANGED <<lvars, run, extracted, ground_truth, validation_result, oracle_reply,
                   oracle_asked, instructions, corrected, sharepoint_data, auto_correct,
                   index, results, corrected_path, corrections_applied,
                   corrector_invoked, reports, raised, log>>

\* process_requisition lines 626-644: build the report, write it, print
\* "Processing Complete!"
GenerateAuditReport ==
    /\ pc = "TRACKED"
    /\ LET r == generate_audit_report(JobNumber(index), extracted, ground_truth,
                                      validation_result, corrections_applied)
       IN  IF r.raises # ""
           THEN /\ raised' = r.raises
                /\ pc' = "RAISED"
                /\ UNCHANGED <<reports, log>>
           ELSE /\ reports' = Append(reports, r.report)
                /\ log' = Append(log, "Processing Complete!")
                /\ pc' = "REPORTED"
                /\ UNCHANGED raised
    /\ UNCHANGED <<lvars, run, extracted, ground_truth, validation_result, oracle_reply,
                   oracle_asked, instructions, corrected, sharepoint_data, auto_correct,
                   index, results, corrected_path, corrections_applied,
                   corrector_invoked, tracker>>

\* process_requisition lines 646-653 and batch_process line 690
AppendResult ==
    /\ pc = "REPORTED"
    /\ results' = Append(results,
          [ job_requisition_number |-> JobNumber(index),
            extracted_data |-> extracted,
            validation_result |-> validation_result,
            corrected_document |-> corrected_path,
            audit_report |-> Path(JobNumber(index), "_AUDIT_REPORT.txt"),
            corrections_applied |-> corrections_applied ])
    /\ index' = index + 1
    /\ pc' = "LOOP"
    /\ UNCHANGED <<lvars, run, extracted, ground_truth, validation_result, oracle_reply,
                   oracle_asked, instructions, corrected, sharepoint_data, auto_correct,
                   corrected_path, corrections_applied, corrector_invoked, tracker,
                   reports, raised, log>>

\* batch_process lines 691-693: the exception leaves process_requisition and is
\* caught, printed and the loop continues
ExceptException ==
    /\ pc = "RAISED"
    /\ IF Catches(raised)
       THEN /\ log' = Append(log, "Error processing")
            /\ index' = index + 1
            /\ pc' = "LOOP"
       ELSE /\ pc' = "ESCAPED"
            /\ UNCHANGED <<log, index>>
    /\ UNCHANGED <<lvars, run, extracted, ground_truth, validation_result, oracle_reply,
                   oracle_asked, instructions, corrected, sharepoint_data, auto_correct,
                   results, corrected_path, corrections_applied, corrector_invoked,
                   tracker, reports, raised>>

\* batch_process line 695
ReturnResults ==
    /\ pc = "LOOP"
    /\ index > Len(sharepoint_data)
    /\ pc' = "DONE"
    /\ UNCHANGED <<run, extracted, ground_truth, validation_result, oracle_reply,
                   oracle_asked, instructions, corrected, bvars, lvars>>

BatchNext ==
    \/ BatchLoop
    \/ ExtractFromPdf
    \/ Validate
    \/ ApplyCorrections
    \/ UpdateSharepoint
    \/ GenerateAuditReport
    \/ AppendResult
    \/ ExceptException
    \/ ReturnResults

BatchSpec == BatchInit /\ [][BatchNext]_vars

\* the loop and the calls in it run to their end
BatchLiveSpec == BatchSpec /\ WF_vars(BatchNext)

(***************************************************************************)
(* config_and_setup.PayTransparencyLoader                                  *)
(***************************************************************************)
\* most data rows a sheet of the model holds
MaxRows == 2

\* what a cell of column A and of column B can hold: nothing, or a string;
\* a state code may be typed in lower case with blanks around it, a text cell
\* may hold one blank only
StateCells == {NoText, Some("IL"), Some(" il "), Some("NV")}
TextCells == {NoText, Some(" "), Some(IL_TEXT), Some(GENERIC_TEXT)}
Rows == [state : StateCells, text : TextCells]
Sheets == UNION { [1..n -> Rows] : n \in 0..MaxRows }

\* the codes get_transparency_text is called with
LookupStates == {"IL", "il", "NV", "zz"}

\* str.strip and str.upper on the strings of the model
Strip(str) ==
    CASE str = " il " -> "il"
      [] str = " " -> ""
      [] OTHER -> str
Upper(str) ==
    CASE str = "il" -> "IL"
      [] str = "zz" -> "ZZ"
      [] OTHER -> str

\* truth value of a cell: None and the empty string are false
Truthy(cell) == cell.some /\ cell.v # ""

\* mapping[key] = value
Assign(mapping, key, value) ==
    [k \in DOMAIN mapping \cup {key} |-> IF k = key THEN value ELSE mapping[k]]

\* the for loop of _load_map over the rows not yet read
RECURSIVE LoadRows(_, _)
LoadRows(rows, mapping) ==
    IF rows = <<>> THEN mapping
    ELSE LET row == Head(rows)
         IN  LoadRows(Tail(rows),
                      IF Truthy(row.state) /\ Truthy(row.text)
                      THEN Assign(mapping, Upper(Strip(row.state.v)), Strip(row.text.v))
                      ELSE mapping)

load_map(rows) == LoadRows(rows, EmptyMap)

\* dict.get(key, default)
Get(mapping, key, default) ==
    IF key \in DOMAIN mapping THEN mapping[key] ELSE default

\* PayTransparencyLoader.get_transparency_text on a loader whose
\* transparency_map is mapping
loader_get_transparency_text(mapping, state) ==
    Get(mapping, Upper(state), DEFAULT_TEXT)

LoaderInit ==
    /\ pc = "NEW"
    /\ run = 1
    /\ extracted = NoDocument
    /\ ground_truth = [min_pay_rate |-> 1475, max_pay_rate |-> 1500]
    /\ validation_result = NoResult
    /\ oracle_reply = NoReply
    /\ oracle_asked = FALSE
    /\ instructions = <<>>
    /\ corrected = NoDocument
    /\ NoBatch
    /\ excel \in Sheets
    /\ transparency_map = EmptyMap
    /\ lookup_state = ""
    /\ lookup_text = ""

\* PayTransparencyLoader.__init__: self.transparency_map = self._load_map()
LoadMap ==
    /\ pc = "NEW"
    /\ transparency_map' = load_map(excel)
    /\ pc' = "LOADED"
    /\ UNCHANGED <<run, extracted, ground_truth, validation_result, oracle_reply,
                   oracle_asked, instructions, corrected, bvars, excel,
                   lookup_state, lookup_text>>

\* one call of get_transparency_text
GetTransparencyText ==
    /\ pc \in {"LOADED", "LOOKED_UP"}
    /\ \E state \in LookupStates :
          /\ lookup_state' = state
          /\ lookup_text' = loader_get_transparency_text(transparency_map, state)
    /\ pc' = "LOOKED_UP"
    /\ UNCHANGED <<run, extracted, ground_truth, validation_result, oracle_reply,
                   oracle_asked, instructions, corrected, bvars, excel,
                   transparency_map>>

LoaderNext ==
    \/ LoadMap
    \/ GetTransparencyText

LoaderSpec == LoaderInit /\ [][LoaderNext]_vars


(***************************************************************************)
(* Properties                                                              *)
(***************************************************************************)
\* validation_result is the result of validate on Subject
Validated == pc \in {"VALIDATED", "PLANNED", "TYPE_ERROR"}
Planned == pc = "PLANNED"
\* the corrected document has been generated
Corrected == run = 2

AbsDiff(a, b) == IF a >= b THEN a - b ELSE b - a
Needed == validation_result.corrections_needed
Verdicts ==
    { validation_result.correct_template, validation_result.correct_min_pay_rate,
      validation_result.correct_max_pay_rate, validation_result.job_description,
      validation_result.dollar_sign_included }

\* C1: whenever the extracted minimum (maximum) rate is present, its verdict is
\* PASS exactly when the rate is within one cent of the ground truth and FAIL
\* exactly when it is more than one cent away.
C1_VerdictFollowsCentDifference ==
    Validated =>
        /\ Subject.min_pay_rate.some =>
             LET d == AbsDiff(Subject.min_pay_rate.v, ground_truth.min_pay_rate)
             IN  /\ validation_result.correct_min_pay_rate = PASS <=> d <= ToleranceCents
                 /\ validation_result.correct_min_pay_rate = FAIL <=> d > ToleranceCents
        /\ Subject.max_pay_rate.some =>
             LET d == AbsDiff(Subject.max_pay_rate.v, ground_truth.max_pay_rate)
             IN  /\ validation_result.correct_max_pay_rate = PASS <=> d <= ToleranceCents
                 /\ validation_result.correct_max_pay_rate = FAIL <=> d > ToleranceCents

\* C2: an absent minimum rate always gives the min-rate verdict FOR CHECKING,
\* an absent maximum rate the max-rate verdict FOR CHECKING, whatever the
\* ground truth and the other fields are.
C2_AbsentRateNeedsReview ==
    Validated =>
        /\ ~Subject.min_pay_rate.some =>
               validation_result.correct_min_pay_rate = FOR_CHECKING
        /\ ~Subject.max_pay_rate.some =>
               validation_result.correct_max_pay_rate = FOR_CHECKING

C2_Witness ==
    /\ Validated
    /\ ~Subject.min_pay_rate.some
    /\ ~Subject.max_pay_rate.some
    /\ Subject.job_description_present
    /\ validation_result.correct_min_pay_rate = FOR_CHECKING
    /\ validation_result.correct_max_pay_rate = FOR_CHECKING

InRange(v, gt) == gt.min_pay_rate <= v /\ v <= gt.max_pay_rate
SomeRoleEndpointOutside ==
    \E i \in 1..Len(Subject.role_specific_rates) :
        \/ ~InRange(Subject.role_specific_rates[i].role_min, ground_truth)
        \/ ~InRange(Subject.role_specific_rates[i].role_max, ground_truth)
SimilarityBelowThreshold ==
    oracle_asked /\ check_text_similarity(oracle_reply) < SimilarityThreshold

RoleFlagged(i) ==
    \E k \in 1..Len(Needed) : Needed[k] = RoleReason(Subject.role_specific_rates[i])

\* C4: for a ground truth with min <= max, a role is named by a correction
\* reason exactly when role_min or role_max lies outside [min, max], pairs with
\* role_min > role_max included.
C4_RoleFlaggedIffEndpointOutside ==
    (Validated /\ ground_truth.min_pay_rate <= ground_truth.max_pay_rate) =>
        \A i \in 1..Len(Subject.role_specific_rates) :
            RoleFlagged(i) <=>
                \/ ~InRange(Subject.role_specific_rates[i].role_min, ground_truth)
                \/ ~InRange(Subject.role_specific_rates[i].role_max, ground_truth)

\* C5: validating and planning the corrected document yields no instruction.
C5_ReplanningIsEmpty ==
    (Corrected /\ Planned) => instructions = <<>>

\* C6: the builder derives exactly one instruction per corrections_needed entry.
C6_OneInstructionPerEntry ==
    Planned => Len(instructions) = Len(Needed)

\* C7: against a ground truth with min <= max, no corrected role pair with
\* min > max is ever written to the document (a clip that would invert stops
\* the correction with an error naming the role instead).
C7_NoInvertedPairEmitted ==
    (Corrected /\ ground_truth.min_pay_rate <= ground_truth.max_pay_rate) =>
        \A i \in 1..Len(corrected.role_specific_rates) :
            corrected.role_specific_rates[i].role_min
                <= corrected.role_specific_rates[i].role_max

IsRateInstruction(ins) == ins.correction \in {1, 2}

\* C9: every rate-mismatch entry yields an instruction whose corrected value is
\* the ground-truth rate; for extracted 12.50/18.00 against 14.75/15.00 both
\* rate verdicts are FAIL and exactly two rate instructions are built, with
\* corrected values 14.75 and 15.00 in that order.
C9_RateMismatchInstructions ==
    /\ Planned =>
         \A k \in 1..Len(Needed) :
             /\ Needed[k].kind = MinMismatchReason(0, 0).kind =>
                   \E j \in 1..Len(instructions) :
                       /\ instructions[j].correction = 1
                       /\ instructions[j].corrected_value = ground_truth.min_pay_rate
             /\ Needed[k].kind = MaxMismatchReason(0, 0).kind =>
                   \E j \in 1..Len(instructions) :
                       /\ instructions[j].correction = 2
                       /\ instructions[j].corrected_value = ground_truth.max_pay_rate
    /\ (/\ Validated
        /\ Subject.min_pay_rate = Some(1250)
        /\ Subject.max_pay_rate = Some(1800)
        /\ ground_truth = [min_pay_rate |-> 1475, max_pay_rate |-> 1500]) =>
         /\ validation_result.correct_min_pay_rate = FAIL
         /\ validation_result.correct_max_pay_rate = FAIL
         /\ Planned =>
              LET rate == SelectSeq(instructions, IsRateInstruction)
              IN  /\ Len(rate) = 2
                  /\ rate[1].correction = 1 /\ rate[1].corrected_value = 1475
                  /\ rate[2].correction = 2 /\ rate[2].corrected_value = 1500

\* the priority the claim gives an instruction: rate mismatches CRITICAL,
\* disclosure text and dollar formatting HIGH
Priority(ins) ==
    IF ins.correction \in {1, 2} THEN "CRITICAL"
    ELSE IF ins.correction \in {3, 4} THEN "HIGH"
    ELSE "UNRANKED"

\* C10: every CRITICAL instruction comes before every HIGH one, and of two
\* CRITICAL instructions the min-rate one comes before the max-rate one.
C10_CriticalFirstInCheckOrder ==
    Planned =>
        \A i, j \in 1..Len(instructions) :
            i < j =>
                /\ ~(Priority(instructions[i]) = "HIGH"
                     /\ Priority(instructions[j]) = "CRITICAL")
                /\ ~(instructions[i].correction = 2 /\ instructions[j].correction = 1)

\* the disclosure-text reason is among the correction reasons
HasTransparencyReason ==
    \E k \in 1..Len(Needed) : Needed[k].kind = TransparencyReason("").kind

\* the instructions that replace the Pay Transparency section
TextInstructions == SelectSeq(instructions, LAMBDA ins : ins.correction = 3)

\* C11: when the map has an entry for the state, the disclosure-text reason is
\* emitted exactly when the similarity obtained for the text is below 0.95 (a
\* similarity of exactly 0.95 emits nothing), and the reason yields one
\* instruction replacing the section with the text stored for that state.
C11_TextReasonIffBelowThreshold ==
    /\ (Validated /\ Subject.state \in MappedStates) =>
           (HasTransparencyReason <=> SimilarityBelowThreshold)
    /\ (Planned /\ HasTransparencyReason) =>
           /\ Len(TextInstructions) = 1
           /\ TextInstructions[1].text = pay_transparency_map(Subject.state)

C11_Witness ==
    /\ Planned
    /\ oracle_asked
    /\ oracle_reply = ScoreReply(80)
    /\ HasTransparencyReason
    /\ Len(TextInstructions) = 1
    /\ TextInstructions[1].text = Some(IL_TEXT)

\* C12: when the map has no entry for the state, validate does not ask for a
\* similarity, emits no disclosure-text reason, and returns what it returns
\* for a mapped state whose text matches.
C12_UnmappedStateSkipsTextCheck ==
    (Validated /\ Subject.state \notin MappedStates) =>
        /\ ~oracle_asked
        /\ ~HasTransparencyReason
        /\ validation_result =
               validate([Subject EXCEPT !.state = "IL", !.pay_transparency_text = IL_TEXT],
                        ground_truth, ScoreReply(100))

C12_Witness ==
    /\ Validated
    /\ Subject.state \notin MappedStates
    /\ Subject.pay_transparency_text = GENERIC_TEXT
    /\ ~oracle_asked
    /\ Needed = <<>>

\* every answer the similarity question can get
Replies == {ScoreReply(80), ScoreReply(95), ScoreReply(100), UnusableReply}

WithoutTextReason(needed) ==
    SelectSeq(needed, LAMBDA r : r.kind # TransparencyReason("").kind)

\* two results agree on the five verdicts and on every reason but the
\* disclosure-text one
SameButTextReason(a, b) ==
    /\ a.correct_template = b.correct_template
    /\ a.correct_min_pay_rate = b.correct_min_pay_rate
    /\ a.correct_max_pay_rate = b.correct_max_pay_rate
    /\ a.job_description = b.job_description
    /\ a.dollar_sign_included = b.dollar_sign_included
    /\ WithoutTextReason(a.corrections_needed) = WithoutTextReason(b.corrections_needed)

\* C13: a run of validate on the same fields and ground truth with any other
\* similarity answer returns the same five verdicts and the same role-range
\* reasons; the two results differ at most in the disclosure-text reason.
C13_VerdictsIgnoreOracle ==
    Validated =>
        \A reply \in Replies :
            SameButTextReason(validation_result, validate(Subject, ground_truth, reply))

C13_Witness ==
    /\ Validated
    /\ oracle_asked
    /\ oracle_reply = ScoreReply(80)
    /\ HasTransparencyReason
    /\ validate(Subject, ground_truth, ScoreReply(100)).corrections_needed # Needed
    /\ \E i \in 1..Len(Subject.role_specific_rates) : RoleFlagged(i)

\* C19: a similarity reply that is not a number stops validate with an error:
\* no result is returned for the requisition and no disclosure-text reason is
\* derived from the failed call.
C19_OracleFailureIsPropagated ==
    (oracle_asked /\ ~oracle_reply.parses) =>
        /\ validation_result = NoResult
        /\ ~HasTransparencyReason

\* C20: validate called with a ground truth whose min exceeds its max stops
\* with an error instead of returning verdicts and role-range reasons.
C20_InvertedGroundTruthRaises ==
    ground_truth.min_pay_rate > ground_truth.max_pay_rate =>
        validation_result = NoResult

\* process_requisition is past its correction step (or was left by an exception)
PastCorrectionStep == pc \in {"CORRECTED", "SKIPPED", "TRACKED", "REPORTED", "RAISED"}

\* C14: the corrector is invoked exactly when auto_correct is set and
\* corrections_needed is non-empty; otherwise the step is skipped, there is no
\* corrected document and the list of applied corrections is empty.
C14_CorrectionStepIffEnabledAndNeeded ==
    PastCorrectionStep =>
        /\ corrector_invoked <=> (auto_correct /\ Needed # <<>>)
        /\ pc = "CORRECTED" => corrector_invoked
        /\ pc = "SKIPPED" => ~corrector_invoked
        /\ ~corrector_invoked =>
              /\ corrected_path = None
              /\ corrections_applied = <<>>
              /\ instructions = <<>>

C14_Witness ==
    /\ pc = "SKIPPED"
    /\ ~auto_correct
    /\ Needed # <<>>
    /\ ~corrector_invoked
    /\ \E k \in 1..Len(results) : results[k].corrected_document = None

\* C15: every requisition that was extracted is eventually reported (tracker
\* updated, report written); no failure of the correction step or of the
\* report leaves it short of that.
C15_ExtractedLeadsToReported ==
    \A i \in 1..MaxBatch :
        (pc = "EXTRACTED" /\ index = i) ~> (pc = "REPORTED" /\ index = i)

\* the positions of the batch whose processing printed "Processing Complete!"
Completed == { i \in 1..Len(log) : log[i] = "Processing Complete!" }

\* the job numbers the returned list has an entry for
Reported == { results[k].job_requisition_number : k \in 1..Len(results) }

\* an entry whose PDF is there, whose extraction returns, and whose document
\* is one of those with both rates on page 1
ProcessableEntry(e) ==
    e.pdf_exists /\ e.raises = "" /\ e.data \in {CleanDoc, IncorrectDoc, Doc651640}

\* C16: no exception leaves batch_process, every entry of the batch is dealt
\* with whatever happened to the others, and every requisition whose own
\* processing completed is in the returned list (one failure among N leaves
\* N-1 successes).
C16_BatchToleratesFailures ==
    /\ pc # "ESCAPED"
    /\ pc = "DONE" =>
          /\ Len(log) = Len(sharepoint_data)
          /\ Reported = { JobNumber(i) : i \in Completed }
          /\ Len(results) = Cardinality(Completed)
          /\ \A i \in 1..Len(sharepoint_data) :
                ProcessableEntry(sharepoint_data[i]) => JobNumber(i) \in Reported

C16_Witness ==
    /\ pc = "DONE"
    /\ Len(sharepoint_data) = 2
    /\ sharepoint_data[1].data = NoMinRateDoc
    /\ log[1] = "Error processing"
    /\ sharepoint_data[2].data = CleanDoc
    /\ Len(results) = 1
    /\ results[1].job_requisition_number = JobNumber(2)

\* C17: the returned list has an entry for every requisition of the batch,
\* the failed ones included.
C17_FailuresAreErrorEntries ==
    pc = "DONE" =>
        \A i \in 1..Len(sharepoint_data) : JobNumber(i) \in Reported

\* C21: a verdict is FOR CHECKING only if it is the min-rate or max-rate
\* verdict and that rate is absent; a rate of exactly 0 is present and is
\* compared with the ground truth; the template, description and dollar
\* verdicts are always PASS or FAIL.
C21_ReviewOnlyForAbsentRate ==
    Validated =>
        /\ validation_result.correct_min_pay_rate = FOR_CHECKING => ~Subject.min_pay_rate.some
        /\ validation_result.correct_max_pay_rate = FOR_CHECKING => ~Subject.max_pay_rate.some
        /\ Subject.min_pay_rate.some => validation_result.correct_min_pay_rate \in {PASS, FAIL}
        /\ Subject.max_pay_rate.some => validation_result.correct_max_pay_rate \in {PASS, FAIL}
        /\ Subject.min_pay_rate = Some(0) =>
              (validation_result.correct_min_pay_rate = FAIL
                 <=> AbsDiff(0, ground_truth.min_pay_rate) > ToleranceCents)
        /\ { validation_result.correct_template, validation_result.job_description,
             validation_result.dollar_sign_included } \subseteq {PASS, FAIL}

C21_Witness ==
    /\ Validated
    /\ Subject.min_pay_rate = Some(0)
    /\ validation_result.correct_min_pay_rate = FAIL
    /\ ~Subject.max_pay_rate.some
    /\ validation_result.correct_max_pay_rate = FOR_CHECKING

\* C22: the template verdict and the job-description verdict are equal, FAIL
\* exactly when the document's job description section is absent and PASS
\* exactly when it is present, whatever the other fields hold.
C22_TemplateEqualsDescription ==
    Validated =>
        /\ validation_result.correct_template = validation_result.job_description
        /\ validation_result.correct_template = FAIL <=> ~Subject.job_description_present
        /\ validation_result.correct_template = PASS <=> Subject.job_description_present

C22_Witness ==
    /\ Validated
    /\ ~Subject.job_description_present
    /\ validation_result.correct_template = FAIL
    /\ validation_result.job_description = FAIL
    /\ validation_result.correct_min_pay_rate = PASS
    /\ validation_result.dollar_sign_included = PASS

DollarReasons == SelectSeq(Needed, LAMBDA r : r = DollarReason)
DollarDirective == Instruction(4, 0, 0, NoText, NoReason)

\* C23: the dollar-sign verdict is FAIL exactly when the document's rates carry
\* no dollar signs and PASS exactly when they do; a FAIL adds exactly one
\* dollar-sign reason, and the instruction builder turns that reason into one
\* instruction, which names no single rate.
C23_DollarVerdictAndDirective ==
    /\ Validated =>
          /\ validation_result.dollar_sign_included = FAIL <=> ~Subject.has_dollar_signs
          /\ validation_result.dollar_sign_included = PASS <=> Subject.has_dollar_signs
          /\ Len(DollarReasons) = (IF Subject.has_dollar_signs THEN 0 ELSE 1)
          /\ InstructionsFor(DollarReason, Subject, ground_truth) = <<DollarDirective>>
    /\ Planned /\ ~Subject.has_dollar_signs =>
          /\ instructions # <<>>
          /\ instructions[Len(instructions)] = DollarDirective

C23_Witness ==
    /\ Planned
    /\ ~Subject.has_dollar_signs
    /\ validation_result.dollar_sign_included = FAIL
    /\ Len(instructions) >= 3
    /\ instructions[Len(instructions)] = DollarDirective

\* position of a corrections_needed entry in the order validate runs its checks
Rank(reason) ==
    IF reason.kind = TemplateReason.kind THEN 1
    ELSE IF reason.kind \in {MinNotFoundReason.kind, MinMismatchReason(0, 0).kind} THEN 2
    ELSE IF reason.kind \in {MaxNotFoundReason.kind, MaxMismatchReason(0, 0).kind} THEN 3
    ELSE IF reason.kind = RoleReason(CHOOSE r \in RoleEntries : TRUE).kind THEN 4
    ELSE IF reason.kind = TransparencyReason("").kind THEN 5
    ELSE IF reason.kind = DollarReason.kind THEN 6
    ELSE 0

\* position of a role name in the role mapping
RoleIndex(name) ==
    CHOOSE i \in 1..Len(Subject.role_specific_rates) :
        Subject.role_specific_rates[i].role = name

\* C30: corrections_needed lists template, min rate, max rate, the role
\* reasons (one per offending role, in the mapping's order), pay transparency
\* text, dollar signs, in that order, with at most one entry per check and per
\* role; its length is at most 5 plus the number of roles, and the
\* job-description check adds no entry.
C30_CorrectionsNeededOrder ==
    Validated =>
        /\ \A i \in 1..Len(Needed) : Rank(Needed[i]) \in 1..6
        /\ \A i, j \in 1..Len(Needed) : i < j =>
              /\ Rank(Needed[i]) <= Rank(Needed[j])
              /\ Rank(Needed[i]) = Rank(Needed[j]) =>
                    /\ Rank(Needed[i]) = 4
                    /\ RoleIndex(Needed[i].role) < RoleIndex(Needed[j].role)
        /\ \A i \in 1..Len(Needed) : Rank(Needed[i]) = 4 =>
              \E k \in 1..Len(Subject.role_specific_rates) :
                  /\ Needed[i] = RoleReason(Subject.role_specific_rates[k])
                  /\ RoleOutOfRange(Subject.role_specific_rates[k], ground_truth)
        /\ Len(Needed) <= 5 + Len(Subject.role_specific_rates)

C30_Witness ==
    /\ Validated
    /\ Len(Subject.role_specific_rates) = 2
    /\ Len(Needed) = 7
    /\ Needed[1] = TemplateReason
    /\ Rank(Needed[4]) = 4 /\ Rank(Needed[5]) = 4
    /\ Needed[7] = DollarReason

RoleReasonsNeeded == SelectSeq(Needed, LAMBDA r : Rank(r) = 4)
RoleInstructions == SelectSeq(instructions, LAMBDA ins : ins.correction = 5)

\* C29: every role out-of-range reason yields the role-range instruction and no
\* other one, whatever the role is called.
C29_RoleReasonYieldsRoleInstruction ==
    /\ Validated =>
          \A i \in 1..Len(Needed) :
              Rank(Needed[i]) = 4 => CorrectionNumber(Needed[i]) = 5
    /\ Planned =>
          /\ Len(RoleInstructions) = Len(RoleReasonsNeeded)
          /\ \A i \in 1..Len(RoleInstructions) :
                RoleInstructions[i].about = RoleReasonsNeeded[i]

\* C26: for test requisition 651640 against 14.75-15.00, with the similarity
\* of its generic text below the threshold, all five verdicts are FAIL, the
\* tracker update has Action_Needed true, and corrections_needed has exactly
\* 7 entries.
C26_TestRequisitionSevenCorrections ==
    (pc = "TRACKED" /\ extracted = Doc651640 /\ SimilarityBelowThreshold) =>
        /\ Verdicts = {FAIL}
        /\ tracker[Len(tracker)].Action_Needed
        /\ Len(Needed) = 7

\* the placeholder apply_corrections returns for an empty corrections_needed
NoCorrectionsNeeded == Reason("No corrections needed", "", 0, 0)
InSeq(x, seq) == \E i \in 1..Len(seq) : seq[i] = x

\* C27: once the correction step is over, corrections_completed and
\* corrections_applied both equal corrections_needed when the step was taken
\* and are both empty when it was skipped; the placeholder 'No corrections
\* needed' appears in no result, and no tracker update has
\* Corrections_Completed true with Action_Needed false.
C27_CompletedEqualsNeededOrEmpty ==
    /\ pc \in {"CORRECTED", "SKIPPED", "TRACKED", "REPORTED"} =>
          /\ validation_result.corrections_completed = corrections_applied
          /\ corrector_invoked => corrections_applied = Needed
          /\ ~corrector_invoked => corrections_applied = <<>>
    /\ \A k \in 1..Len(results) :
          /\ results[k].validation_result.corrections_completed
                = results[k].corrections_applied
          /\ results[k].corrections_applied
                \in {<<>>, results[k].validation_result.corrections_needed}
          /\ ~InSeq(NoCorrectionsNeeded, results[k].corrections_applied)
    /\ \A k \in 1..Len(tracker) :
          tracker[k].Corrections_Completed => tracker[k].Action_Needed

C27_Witness ==
    /\ pc = "DONE"
    /\ auto_correct
    /\ Len(results) = 2
    /\ results[1].corrections_applied # <<>>
    /\ results[1].corrections_applied = results[1].validation_result.corrections_needed
    /\ tracker[1].Corrections_Completed
    /\ results[2].validation_result.corrections_needed = <<>>
    /\ results[2].corrections_applied = <<>>
    /\ ~tracker[2].Corrections_Completed

\* the job numbers a report was written for
ReportedJobs == { reports[k].job : k \in 1..Len(reports) }

\* C28: a requisition whose minimum or maximum rate is absent is processed to
\* the end like any other: once process_requisition is over, every requisition
\* the tracker was updated for has its audit report and its result, and a
\* failure is never raised after the tracker update.
C28_AbsentRateProcessedToCompletion ==
    /\ pc = "RAISED" =>
          \A k \in 1..Len(tracker) : tracker[k].Job_Requisition_Number # JobNumber(index)
    /\ pc \in {"LOOP", "DONE"} =>
          \A k \in 1..Len(tracker) :
              /\ tracker[k].Job_Requisition_Number \in ReportedJobs
              /\ tracker[k].Job_Requisition_Number \in Reported

\* process_requisition has the extracted fields of the current requisition
HasExtracted ==
    \/ pc \in {"EXTRACTED", "VALIDATED", "CORRECTED", "SKIPPED", "TRACKED", "REPORTED"}
    \/ pc = "RAISED" /\ sharepoint_data[index].raises = ""
InCall == pc \in {"CALLED", "EXTRACTED", "VALIDATED", "CORRECTED", "SKIPPED", "TRACKED",
                  "REPORTED", "RAISED"}

\* the result process_requisition gives for one entry of the batch taken alone
ResultsAlone(i) ==
    LET e == sharepoint_data[i]
        replies == IF ConsultsOracle(e.data)
                   THEN OracleReplies(e.data.pay_transparency_text,
                                      pay_transparency_map(e.data.state).v)
                   ELSE {NoReply}
    IN  { LET v == validate(e.data, e.ground_truth, reply)
              applied == IF ShouldCorrect(auto_correct, v.corrections_needed)
                         THEN v.corrections_needed ELSE <<>>
          IN  [ job_requisition_number |-> JobNumber(i),
                extracted_data |-> e.data,
                validation_result |-> [v EXCEPT !.corrections_completed = applied],
                corrected_document |->
                    IF applied = <<>> THEN None
                    ELSE Path(JobNumber(i), "_CORRECTED.txt"),
                audit_report |-> Path(JobNumber(i), "_AUDIT_REPORT.txt"),
                corrections_applied |-> applied ] : reply \in replies }

FieldsAsGiven ==
    /\ InCall => ground_truth = sharepoint_data[index].ground_truth
    /\ HasExtracted => extracted = sharepoint_data[index].data
    /\ \A k \in 1..Len(results) :
          results[k] \in ResultsAlone(results[k].job_requisition_number)

\* C24: no step of batch_process, process_requisition, validate or
\* apply_corrections changes the ground truths or the extracted fields: the
\* batch list is the same after every step, the GroundTruth and ExtractedData
\* in use hold the values they were read with, and every returned result is
\* the one its requisition gives when processed alone.  (The state-to-text
\* map is only read with .get; the model has it as the constant operator
\* pay_transparency_map.)
C24_InputsAreNeverModified ==
    [][ /\ sharepoint_data' = sharepoint_data
        /\ auto_correct' = auto_correct
        /\ (HasExtracted /\ HasExtracted' /\ index' = index) => extracted' = extracted
        /\ (InCall /\ InCall' /\ index' = index) => ground_truth' = ground_truth
        /\ FieldsAsGiven' ]_vars

C24_Witness ==
    /\ pc = "DONE"
    /\ auto_correct
    /\ Len(results) = 2
    /\ results[1].extracted_data = IncorrectDoc
    /\ results[1].corrections_applied # <<>>
    /\ results[2].extracted_data = Doc651640
    /\ sharepoint_data[1].data = IncorrectDoc
    /\ sharepoint_data[2].data = Doc651640

\* C25: get_transparency_text returns the mapped text for a mapped code,
\* whatever the case of the letters it is passed in, and the one non-empty
\* default text for every other code; it never returns an empty text.
C25_LookupReturnsTextOrDefault ==
    /\ DEFAULT_TEXT # ""
    /\ pc = "LOOKED_UP" =>
          /\ lookup_text # ""
          /\ Upper(lookup_state) \in DOMAIN transparency_map =>
                lookup_text = transparency_map[Upper(lookup_state)]
          /\ Upper(lookup_state) \notin DOMAIN transparency_map =>
                lookup_text = DEFAULT_TEXT

=============================================================================
